---------------------------- MODULE Spec2Model ----------------------------
(***************************************************************************)
(* Model of the vision.ForegroundDetector core (Stauffer-Grimson GMM       *)
(* background subtraction): WeightedGaussian, ForegroundDetectorFunctor    *)
(* and ForegroundDetectorImpl.                                             *)
(*                                                                         *)
(* stat_type values are modelled in exact arithmetic as extended rationals *)
(* <<n, d>> with d >= 0: d > 0 is the rational n/d in lowest terms, and    *)
(* d = 0 is an IEEE non-finite value (<<1,0>> = +Inf, <<-1,0>> = -Inf,     *)
(* <<0,0>> = NaN), so that a division by zero behaves as it does for       *)
(* float/double rather than being left undefined.                          *)
(*                                                                         *)
(* A member function of the functor takes the functor record f (its        *)
(* `this`) as first parameter.  A `const image_type * pixel` is the        *)
(* offset of the pointed-to sample in f.mImage.                            *)
(***************************************************************************)
EXTENDS Integers, Sequences, FiniteSets, TLC

VARIABLES
    NDEBUG,                  \* build flag: VISION_ASSERT compiled out
    arm,                     \* build flag __arm__: the functor runs on the calling thread
    mFtor,                   \* ForegroundDetectorImpl::mFtor, the functor's data members
    mGMMVec,                 \* ForegroundDetectorImpl::mGMMVec, one PixelModel per pixel
    mask,                    \* the caller's output buffer of the current/last step
    pool,                    \* parallel_for: the sub-ranges no worker has started yet
    running,                 \* parallel_for: per worker, the rest of the sub-range it loops over
    chunks,                  \* the ranges operator() was invoked on in the current/last step
    pre,                     \* mGMMVec as the current/last step or reset found it
    touched,                 \* per pixel: accesses to its model and mask entry in this step
    saved,                   \* the caller's arrays as the last get_states left them
    lastCall,                \* the API call that produced this state
    err,                     \* what that call reported: "none", an exception, or a crash
    budget,                  \* samples the remaining steps of the behaviour may process
    called,                  \* the last direct call of isForeground: its iterator and result
    created                  \* the weight a float detector gave the first gaussian of a model

vars == <<NDEBUG, arm, mFtor, mGMMVec, mask, pool, running, chunks, pre, touched, saved,
          lastCall, err, budget, called, created>>

-----------------------------------------------------------------------------
(* Bounds of the model and input domains *)

MaxSamples == 4          \* samples (pixels x channels) the steps of a behaviour process
MaxApiSamples == 2       \* the same, where every API call is allowed in any order
MaxCallSamples == 3      \* samples the steps before a direct call of isForeground process
MaxGaussians == 3        \* largest numGaussians passed to initialize
MaxLoaded == 4           \* largest model a set_states may build
MaxPixelSamples == 4     \* samples the steps of a one-pixel behaviour process
MaxLayoutSamples == 8    \* samples the steps on two-channel frames process
MaxStateSamples == 4     \* samples the steps before a get_states process
MaxSceneSamples == 6     \* samples the steps of a scenario process
MaxCreateSamples == 3    \* samples the steps after a first gaussian process
MaxRateSamples == 4      \* samples the steps at learning rates up to 1 process

PixelValues == {0, 1, 8, 16}
LearningRates == {<<1, 2>>}
InitialWeights == {<<1, 2>>}
InitialVariances == {<<1, 1>>}
VarianceThresholds == {<<4, 1>>}
MinBGRatios == {<<1, 2>>, <<1, 1>>}
ValidDims == {<<1, 1>>, <<1, 2>>, <<1, 1, 2>>, <<1, 2, 2>>}
MalformedDims == {<<2>>}
(* what an out-of-bounds read of dims[1], or a read of a data member that was
   never assigned, may yield *)
Garbage == {0, 2}

-----------------------------------------------------------------------------
(* stat_type arithmetic *)

Abs(x) == IF x < 0 THEN -x ELSE x

Sgn(x) == IF x < 0 THEN -1 ELSE IF x > 0 THEN 1 ELSE 0

RECURSIVE GCD(_, _)
GCD(a, b) == IF b = 0 THEN a ELSE GCD(b, a % b)

Norm(n, d) ==
    IF d = 0 THEN <<Sgn(n), 0>>
    ELSE LET g == GCD(Abs(n), Abs(d))
             s == IF d < 0 THEN -1 ELSE 1
         IN  <<s * (n \div g), s * (d \div g)>>

Zero == <<0, 1>>
One == <<1, 1>>
NaN == <<0, 0>>

IsNaN(a) == a = NaN
IsFinite(a) == a[2] # 0

RAdd(a, b) == Norm(a[1] * b[2] + b[1] * a[2], a[2] * b[2])
RNeg(a) == <<-a[1], a[2]>>
RSub(a, b) == RAdd(a, RNeg(b))
RMul(a, b) == Norm(a[1] * b[1], a[2] * b[2])
RDiv(a, b) == RMul(a, Norm(b[2], b[1]))

RLt(a, b) ==
    IF IsNaN(a) \/ IsNaN(b) THEN FALSE
    ELSE IF a[2] = 0 /\ b[2] = 0 THEN a[1] < b[1]
    ELSE a[1] * b[2] < b[1] * a[2]

RLe(a, b) == ~IsNaN(a) /\ ~IsNaN(b) /\ ~RLt(b, a)

RECURSIVE RSum(_)
RSum(s) == IF s = <<>> THEN Zero ELSE RAdd(RSum(SubSeq(s, 1, Len(s) - 1)), s[Len(s)])

(* (x <= Eps<stat_type>(1.0)) for the double instantiation, Eps = 2^-52.  Every
   rational of the model has a denominator below 2^31, so a positive one exceeds
   2^-52 and the test is x <= 0 on the values the model can form. *)
LeqEps(x) == ~IsNaN(x) /\ x[1] <= 0

(* stat_type = float: a positive normal value is <<m, e>> with
   2^23 <= m < 2^24, worth m * 2^e; results are rounded to nearest, ties to even *)
StatOne == <<8388608, -23>>

(* the largest float below 1 *)
StatBelowOne == <<16777215, -24>>

(* StatRound rounding toward zero *)
StatRoundBelow(m, e, up) == <<m, e>>

(* m * 2^e, with m raised to the next float when up holds *)
StatRound(m, e, up) ==
    IF ~up THEN <<m, e>>
    ELSE IF m + 1 = 16777216 THEN <<8388608, e + 1>>
    ELSE <<m + 1, e>>

(* long division: the quotient q and remainder of (rem * 2^bits) by m, rem < m *)
RECURSIVE StatQuotient(_, _, _, _)
StatQuotient(rem, m, q, bits) ==
    IF bits = 0 THEN <<q, rem>>
    ELSE IF 2 * rem >= m THEN StatQuotient(2 * rem - m, m, 2 * q + 1, bits - 1)
    ELSE StatQuotient(2 * rem, m, 2 * q, bits - 1)

(* the float nearest to (q + rem/m) * 2^e, qr = <<q, rem>> *)
StatNearest(qr, m, e) ==
    StatRound(qr[1], e, 2 * qr[2] > m \/ (2 * qr[2] = m /\ qr[1] % 2 = 1))

(* one / x *)
StatInverse(x) ==
    IF x[1] = 8388608 THEN <<8388608, -46 - x[2]>>
    ELSE StatNearest(StatQuotient(8388608, x[1], 0, 24), x[1], -47 - x[2])

(* the 48-bit product of the mantissas a and b as <<high, low>>, worth
   high * 2^24 + low, from their 12-bit halves *)
StatProduct(a, b) ==
    LET a1 == a \div 4096
        a0 == a % 4096
        b1 == b \div 4096
        b0 == b % 4096
        mid == a1 * b0 + a0 * b1
        low == (mid % 4096) * 4096 + a0 * b0
    IN  <<a1 * b1 + (mid \div 4096) + (low \div 16777216), low % 16777216>>

(* the float nearest to (high * 2^24 + low) * 2^e, hl = <<high, low>> *)
StatOfProduct(hl, e) ==
    IF hl[1] >= 8388608
    THEN StatRound(hl[1], e + 24,
                   hl[2] > 8388608 \/ (hl[2] = 8388608 /\ hl[1] % 2 = 1))
    ELSE StatRound(2 * hl[1] + (hl[2] \div 8388608), e + 23,
                   \/ hl[2] % 8388608 > 4194304
                   \/ (/\ hl[2] % 8388608 = 4194304
                       /\ (2 * hl[1] + (hl[2] \div 8388608)) % 2 = 1))

(* x * y, as in scaleWeight *)
StatMul(x, y) == StatOfProduct(StatProduct(x[1], y[1]), x[2] + y[2])

-----------------------------------------------------------------------------
(* WeightedGaussian *)

(* WeightedGaussian(nChannels, weight, mean, variance) with a scalar variance,
   which initialize copies to every channel *)
WeightedGaussian(nChannels, weight, mean, variance) ==
    [mWeight |-> weight, mMean |-> mean,
     mVariance |-> [i \in 1..nChannels |-> variance]]

(* static_cast<stat_type>(pixel[offset]) *)
Sample(image, offset) == <<image[offset + 1], 1>>

SqDist(x, m) == RMul(RSub(x, m), RSub(x, m))

isMatch(g, image, pixel, threshold, numPixels) ==
    LET sumDistance ==
            RSum([i \in 1..Len(g.mMean) |->
                     SqDist(Sample(image, pixel + (i - 1) * numPixels), g.mMean[i])])
        sumV == RSum(g.mVariance)
    IN  RLt(sumDistance, RMul(threshold, sumV))

(* isMatchRowMajor reading the first channel's sample for every channel *)
isMatchRowMajorFirstSample(g, image, pixel, threshold, numPixels) ==
    LET sumDistance ==
            RSum([i \in 1..Len(g.mMean) |-> SqDist(Sample(image, pixel), g.mMean[i])])
        sumV == RSum(g.mVariance)
    IN  RLt(sumDistance, RMul(threshold, sumV))

isMatchRowMajor(g, image, pixel, threshold, numPixels) ==
    LET sumDistance ==
            RSum([i \in 1..Len(g.mMean) |->
                     SqDist(Sample(image, pixel + (i - 1)), g.mMean[i])])
        sumV == RSum(g.mVariance)
    IN  RLt(sumDistance, RMul(threshold, sumV))

(* the per-channel and weight update equations shared by update and
   updateRowMajor; x[i] is the sample of channel i *)
UpdateWith(g, x, learningRate, numChannels) ==
    LET d(i) == RSub(x[i], g.mMean[i])
    IN  [mMean |-> [i \in 1..Len(g.mMean) |->
                       IF i <= numChannels
                       THEN RAdd(g.mMean[i], RMul(learningRate, d(i)))
                       ELSE g.mMean[i]],
         mVariance |-> [i \in 1..Len(g.mVariance) |->
                       IF i <= numChannels
                       THEN RAdd(g.mVariance[i],
                                 RMul(learningRate,
                                      RSub(RMul(d(i), d(i)), g.mVariance[i])))
                       ELSE g.mVariance[i]],
         mWeight |-> RAdd(g.mWeight, RMul(learningRate, RSub(One, g.mWeight)))]

update(g, image, pixel, learningRate, numChannels, numPixels) ==
    UpdateWith(g, [i \in 1..numChannels |-> Sample(image, pixel + (i - 1) * numPixels)],
               learningRate, numChannels)

updateRowMajor(g, image, pixel, learningRate, numChannels, numPixels) ==
    UpdateWith(g, [i \in 1..numChannels |-> Sample(image, pixel + (i - 1))],
               learningRate, numChannels)

(* rank() = mWeight / Sqrt(sum(mVariance)).  The square root of a rational is not
   one, so a rank is kept as its sign and its square; nan marks a NaN rank (NaN
   weight, negative variance sum, or 0/0). *)
rank(g) ==
    LET sumV == RSum(g.mVariance)
        sq == RDiv(RMul(g.mWeight, g.mWeight), sumV)
    IN  IF IsNaN(g.mWeight) \/ IsNaN(sumV) \/ RLt(sumV, Zero) \/ IsNaN(sq)
        THEN [nan |-> TRUE, sgn |-> 0, sq |-> NaN]
        ELSE IF sq = Zero THEN [nan |-> FALSE, sgn |-> 0, sq |-> Zero]
        ELSE [nan |-> FALSE, sgn |-> Sgn(g.mWeight[1]), sq |-> sq]

(* r1 > r2 on ranks *)
RankGt(r1, r2) ==
    IF r1.nan \/ r2.nan THEN FALSE
    ELSE IF r1.sgn # r2.sgn THEN r1.sgn > r2.sgn
    ELSE IF r1.sgn = 1 THEN RLt(r2.sq, r1.sq)
    ELSE IF r1.sgn = -1 THEN RLt(r1.sq, r2.sq)
    ELSE FALSE

(* operator> *)
Greater(g1, g2) == RankGt(rank(g1), rank(g2))

scaleWeight(g, factor) == [g EXCEPT !.mWeight = RMul(g.mWeight, factor)]

-----------------------------------------------------------------------------
(* ForegroundDetectorFunctor: the per-pixel algorithm.  A GaussianMixtureModel is
   a sequence of WeightedGaussian; an iterator is a position 1..Len, and end() is
   Len + 1. *)

(* FirstMatch going on past a match while a later gaussian matches as well *)
RECURSIVE FirstMatchLatest(_, _, _, _)
FirstMatchLatest(f, gmm, pixel, first) ==
    IF first > Len(gmm) THEN first
    ELSE IF /\ isMatch(gmm[first], f.mImage, pixel, f.mVarianceThreshold, f.mNumPixels)
            /\ FirstMatchLatest(f, gmm, pixel, first + 1) = Len(gmm) + 1
         THEN first
    ELSE FirstMatchLatest(f, gmm, pixel, first + 1)

RECURSIVE FirstMatch(_, _, _, _)
FirstMatch(f, gmm, pixel, first) ==
    IF first > Len(gmm) THEN first
    ELSE IF isMatch(gmm[first], f.mImage, pixel, f.mVarianceThreshold, f.mNumPixels)
         THEN first
    ELSE FirstMatch(f, gmm, pixel, first + 1)

findMatch(f, gmm, pixel) == FirstMatch(f, gmm, pixel, 1)

RECURSIVE FirstMatchRowMajor(_, _, _, _)
FirstMatchRowMajor(f, gmm, pixel, first) ==
    IF first > Len(gmm) THEN first
    ELSE IF isMatchRowMajor(gmm[first], f.mImage, pixel, f.mVarianceThreshold,
                            f.mNumPixels)
         THEN first
    ELSE FirstMatchRowMajor(f, gmm, pixel, first + 1)

findMatchRowMajor(f, gmm, pixel) == FirstMatchRowMajor(f, gmm, pixel, 1)

Swap(gmm, i, j) == [gmm EXCEPT ![i] = gmm[j], ![j] = gmm[i]]

(* sortGaussians moving the gaussian at matchID to the front whatever its rank *)
RECURSIVE sortGaussiansToFront(_, _)
sortGaussiansToFront(gmm, matchID) ==
    IF matchID > 1
    THEN sortGaussiansToFront(Swap(gmm, matchID, matchID - 1), matchID - 1)
    ELSE [gmm |-> gmm, match |-> matchID]

(* percolate the gaussian at matchID up while it ranks above its predecessor *)
RECURSIVE sortGaussians(_, _)
sortGaussians(gmm, matchID) ==
    IF matchID > 1 /\ Greater(gmm[matchID], gmm[matchID - 1])
    THEN sortGaussians(Swap(gmm, matchID, matchID - 1), matchID - 1)
    ELSE [gmm |-> gmm, match |-> matchID]

(* normalizeWeights starting at the second gaussian *)
normalizeWeightsFromSecond(gmm, scaleFactor) ==
    [i \in 1..Len(gmm) |-> IF i = 1 THEN gmm[i] ELSE scaleWeight(gmm[i], scaleFactor)]

normalizeWeights(gmm, scaleFactor) ==
    [i \in 1..Len(gmm) |-> scaleWeight(gmm[i], scaleFactor)]

(* PopLowest popping only a model that has outgrown mNumGaussians *)
PopLowestLate(f, gmm) ==
    IF gmm # <<>> /\ Len(gmm) > f.mNumGaussians
    THEN [gmm |-> SubSeq(gmm, 1, Len(gmm) - 1),
          weight |-> RSub(f.mInitialWeight, gmm[Len(gmm)].mWeight)]
    ELSE [gmm |-> gmm, weight |-> f.mInitialWeight]

(* PopLowest without the pop_back *)
PopLowestKept(f, gmm) == [gmm |-> gmm, weight |-> f.mInitialWeight]

(* no-match branch: the model after the conditional pop_back, and the weight
   that enters the scale factor *)
PopLowest(f, gmm) ==
    IF gmm # <<>> /\ Len(gmm) = f.mNumGaussians
    THEN [gmm |-> SubSeq(gmm, 1, Len(gmm) - 1),
          weight |-> RSub(f.mInitialWeight, gmm[Len(gmm)].mWeight)]
    ELSE [gmm |-> gmm, weight |-> f.mInitialWeight]

(* no-match branch: scale factor for a model of `size` components after push_back *)
NoMatchScaleFactor(size, weight) ==
    IF size = 1 THEN RDiv(One, weight) ELSE RDiv(One, RAdd(One, weight))

(* MatchScaleFactor taking the updated weight to be 1 + learningRate *)
MatchScaleFactorFull(f, weight) == RDiv(One, RAdd(One, f.mLearningRate))

(* match branch: scale factor from the matched weight before its update *)
MatchScaleFactor(f, weight) ==
    RDiv(One, RAdd(One, RMul(f.mLearningRate, RSub(One, weight))))

(* PushNew appending to the model whatever its size *)
PushNewUncapped(f, gmm, mean) ==
    LET pushed == Append(gmm, WeightedGaussian(f.mNumChannels, f.mInitialWeight, mean,
                                                f.mInitialVariance))
        scaleFactor == NoMatchScaleFactor(Len(pushed), f.mInitialWeight)
    IN  [gmm |-> normalizeWeights(pushed, scaleFactor), match |-> Len(pushed)]

(* no-match branch from the push_back on; mean is the pixel as stat_type *)
PushNew(f, gmm, mean) ==
    LET popped == PopLowest(f, gmm)
        pushed == Append(popped.gmm,
                         WeightedGaussian(f.mNumChannels, f.mInitialWeight, mean,
                                          f.mInitialVariance))
        scaleFactor == NoMatchScaleFactor(Len(pushed), popped.weight)
    IN  [gmm |-> normalizeWeights(pushed, scaleFactor), match |-> Len(pushed)]

(* match branch after sortGaussians: normalizeWeights on the sorted model; the
   iterator sortGaussians returns is the matching gaussian *)
NormalizeSorted(sorted, scaleFactor) ==
    [gmm |-> normalizeWeights(sorted.gmm, scaleFactor), match |-> sorted.match]

(* match branch: updated is the matched gaussian after update / updateRowMajor,
   the scale factor is taken from its weight before that *)
MatchFound(f, gmm, matchingGaussian, updated) ==
    NormalizeSorted(sortGaussians([gmm EXCEPT ![matchingGaussian] = updated],
                                  matchingGaussian),
                    MatchScaleFactor(f, gmm[matchingGaussian].mWeight))

(* findMatchAndUpdate once findMatch has returned matchingGaussian *)
UpdateFrom(f, gmm, pixel, matchingGaussian) ==
    IF matchingGaussian # Len(gmm) + 1
    THEN MatchFound(f, gmm, matchingGaussian,
                    update(gmm[matchingGaussian], f.mImage, pixel, f.mLearningRate,
                           f.mNumChannels, f.mNumPixels))
    ELSE PushNew(f, gmm, [i \in 1..f.mNumChannels |->
                             Sample(f.mImage, pixel + (i - 1) * f.mNumPixels)])

findMatchAndUpdate(f, gmm, pixel) ==
    UpdateFrom(f, gmm, pixel, findMatch(f, gmm, pixel))

(* findMatchAndUpdateRowMajor once findMatchRowMajor has returned matchingGaussian *)
UpdateFromRowMajor(f, gmm, pixel, matchingGaussian) ==
    IF matchingGaussian # Len(gmm) + 1
    THEN MatchFound(f, gmm, matchingGaussian,
                    updateRowMajor(gmm[matchingGaussian], f.mImage, pixel,
                                   f.mLearningRate, f.mNumChannels, f.mNumPixels))
    ELSE PushNew(f, gmm, [i \in 1..f.mNumChannels |->
                             Sample(f.mImage, pixel + (i - 1))])

findMatchAndUpdateRowMajor(f, gmm, pixel) ==
    UpdateFromRowMajor(f, gmm, pixel, findMatchRowMajor(f, gmm, pixel))

(* ForegroundScan without the test against the minimum background ratio *)
RECURSIVE ForegroundScanNoRatio(_, _, _, _, _)
ForegroundScanNoRatio(f, gmm, matchingGaussian, start, wSum) ==
    IF start > Len(gmm) THEN "end"
    ELSE IF matchingGaussian = start THEN "bg"
    ELSE ForegroundScanNoRatio(f, gmm, matchingGaussian, start + 1, wSum)

(* ForegroundScan going on past the matching gaussian until the weights reach the
   minimum background ratio *)
RECURSIVE ForegroundScanToRatio(_, _, _, _, _)
ForegroundScanToRatio(f, gmm, matchingGaussian, start, wSum) ==
    IF start > Len(gmm) THEN "end"
    ELSE LET w == RAdd(wSum, gmm[start].mWeight)
         IN  IF LeqEps(RSub(f.mMinimumBackgroundRatio, w))
             THEN (IF matchingGaussian = start THEN "bg" ELSE "fg")
             ELSE ForegroundScanToRatio(f, gmm, matchingGaussian, start + 1, w)

(* the loop of isForeground from position start with wSum accumulated so far:
   "bg", "fg", or "end" when the loop runs off the list *)
RECURSIVE ForegroundScan(_, _, _, _, _)
ForegroundScan(f, gmm, matchingGaussian, start, wSum) ==
    IF start > Len(gmm) THEN "end"
    ELSE LET w == RAdd(wSum, gmm[start].mWeight)
         IN  IF LeqEps(RSub(f.mMinimumBackgroundRatio, w))
             THEN (IF matchingGaussian = start THEN "bg" ELSE "fg")
             ELSE IF matchingGaussian = start THEN "bg"
             ELSE ForegroundScan(f, gmm, matchingGaussian, start + 1, w)

(* isForeground with the quick exit returning foreground *)
isForegroundQuickFg(f, gmm, matchingGaussian) ==
    IF matchingGaussian = 1 THEN "fg"
    ELSE ForegroundScan(f, gmm, matchingGaussian, 1, Zero)

(* isForeground whose loop starts at the second gaussian *)
isForegroundFromSecond(f, gmm, matchingGaussian) ==
    IF matchingGaussian = 1 THEN "bg"
    ELSE ForegroundScan(f, gmm, matchingGaussian, 2, Zero)

(* "bg" (returns false), "fg" (returns true), or "end" when control reaches the
   VISION_ASSERT(false) after the loop *)
isForeground(f, gmm, matchingGaussian) ==
    IF matchingGaussian = 1 THEN "bg"
    ELSE ForegroundScan(f, gmm, matchingGaussian, 1, Zero)

(* Classify taking every gaussian but the first for foreground *)
ClassifyByPosition(f, r) ==
    [gmm |-> r.gmm, match |-> r.match, class |-> IF r.match = 1 THEN "bg" ELSE "fg"]

(* detectForeground once the model is updated: r is the updated model with the
   iterator to its matching gaussian *)
Classify(f, r) ==
    [gmm |-> r.gmm, match |-> r.match, class |-> isForeground(f, r.gmm, r.match)]

detectForeground(f, gmm, pixel) == Classify(f, findMatchAndUpdate(f, gmm, pixel))

detectForegroundRowMajor(f, gmm, pixel) ==
    Classify(f, findMatchAndUpdateRowMajor(f, gmm, pixel))

(* One iteration of the loop of runAlgorithm / runAlgorithmRowMajor on the
   store st.vec and the output buffer st.mask: pixel is the sample offset and
   index the pixel id.  GMMVector::at throws std::out_of_range; reaching the
   VISION_ASSERT(false) of isForeground aborts unless NDEBUG, where it returns
   false. *)
(* mMask[id] = detectForeground(...): r is what detectForeground did to the
   model of pixel index *)
AssignMask(st, index, r, ndebug) ==
    IF r.class = "end" /\ ~ndebug
    THEN [st EXCEPT !.vec[index + 1] = r.gmm,
                    !.touched[index + 1] = @ + 1,
                    !.err = "abort"]
    ELSE [st EXCEPT !.vec[index + 1] = r.gmm,
                    !.mask[index + 1] = (r.class = "fg"),
                    !.touched[index + 1] = @ + 1]

(* LoopBody passing the address of the frame for every pixel *)
LoopBodyAtOrigin(f, st, pixel, index, rowMajor, ndebug) ==
    IF index >= Len(st.vec) THEN [st EXCEPT !.err = "out_of_range"]
    ELSE AssignMask(st, index,
                    IF rowMajor
                    THEN detectForegroundRowMajor(f, st.vec[index + 1], 0)
                    ELSE detectForeground(f, st.vec[index + 1], 0),
                    ndebug)

LoopBody(f, st, pixel, index, rowMajor, ndebug) ==
    IF index >= Len(st.vec) THEN [st EXCEPT !.err = "out_of_range"]
    ELSE AssignMask(st, index,
                    IF rowMajor
                    THEN detectForegroundRowMajor(f, st.vec[index + 1], pixel)
                    ELSE detectForeground(f, st.vec[index + 1], pixel),
                    ndebug)

RECURSIVE runAlgorithm(_, _, _, _, _)
runAlgorithm(f, st, id, end, ndebug) ==
    IF id = end \/ st.err # "none" THEN st
    ELSE runAlgorithm(f, LoopBody(f, st, id, id, FALSE, ndebug), id + 1, end, ndebug)

RECURSIVE runAlgorithmRowMajor(_, _, _, _, _)
runAlgorithmRowMajor(f, st, id, end, ndebug) ==
    IF ~(id < end * f.mNumChannels) \/ st.err # "none" THEN st
    ELSE runAlgorithmRowMajor(f,
             LoopBody(f, st, id, id \div f.mNumChannels, TRUE, ndebug),
             id + f.mNumChannels, end, ndebug)

(* operator()(range): the model-pointer assertion.  "ok" when the loop is
   entered; with the assertion compiled out a NULL mGMMPtr is dereferenced by
   the first iteration of a non-empty range, modelled as the crash it is on the
   supported platforms. *)
FunctorEntry(f, rangeBegin, rangeEnd, rowMajor, ndebug) ==
    IF f.mGMMPtr # "NULL" THEN "ok"
    ELSE IF ~ndebug THEN "abort"
    ELSE IF rangeBegin < rangeEnd /\ (rowMajor => f.mNumChannels > 0) THEN "segv"
    ELSE "ok"

(* operator()(rangeBegin, rangeEnd) as one call *)
FunctorCall(f, st, rangeBegin, rangeEnd, rowMajor, ndebug) ==
    LET entry == FunctorEntry(f, rangeBegin, rangeEnd, rowMajor, ndebug)
    IN  IF entry # "ok" THEN [st EXCEPT !.err = entry]
        ELSE IF f.mGMMPtr = "NULL" THEN st
        ELSE IF rowMajor
             THEN runAlgorithmRowMajor(f, st, rangeBegin * f.mNumChannels, rangeEnd,
                                       ndebug)
             ELSE runAlgorithm(f, st, rangeBegin, rangeEnd, ndebug)

-----------------------------------------------------------------------------
(* ForegroundDetectorImpl and the C API *)

EmptyModel == <<>>

Unassigned ==
    [mGMMPtr |-> "NULL", mDims |-> <<>>, mNumPixels |-> 0, mNumChannels |-> 0,
     mNumGaussians |-> 0, mInitialVariance |-> Zero, mInitialWeight |-> Zero,
     mVarianceThreshold |-> Zero, mMinimumBackgroundRatio |-> Zero,
     mImage |-> <<>>, mLearningRate |-> Zero]

(* the caller's arrays before any get_states.  held: a get_states has filled them;
   source: the store that get_states read; overrun: it wrote past the end of an
   array *)
NoArrays == [held |-> FALSE, weights |-> <<>>, means |-> <<>>, variances |-> <<>>,
             numActive |-> <<>>, source |-> <<>>, overrun |-> FALSE]

(* no direct call of isForeground so far *)
NoCall == [matchingGaussian |-> 0, atEnd |-> FALSE, returned |-> "none"]

(* no model of a float detector has got its first gaussian so far *)
NotCreated == [made |-> FALSE, initialWeight |-> StatOne, weight |-> StatOne]

(* the process is running: no assertion failure or crash so far *)
Alive == err \notin {"abort", "segv"}

(* no step is in progress *)
Idle == pool = {} /\ running = {}

(* the state after foregroundDetector_construct: the functor's constructor sets
   mGMMPtr only; the other members of Unassigned stand for indeterminate values
   and are never read as such (see NumPixelsRead) *)
Constructed ==
    /\ NDEBUG \in BOOLEAN
    /\ arm \in BOOLEAN
    /\ mFtor = Unassigned
    /\ mGMMVec = <<>>
    /\ mask = <<>>
    /\ pool = {}
    /\ running = {}
    /\ chunks = {}
    /\ pre = <<>>
    /\ touched = <<>>
    /\ saved = NoArrays
    /\ lastCall = "construct"
    /\ err = "none"
    /\ called = NoCall
    /\ created = NotCreated

(* what a call other than step leaves of the previous step: its frame and mask
   buffers were borrowed for that call only *)
NoFrame(f) == [f EXCEPT !.mImage = <<>>, !.mLearningRate = Zero]

(* setup(dims): dims.size() >= 2 is asserted; with the assertion compiled out
   dims[1] of a one-element vector is an out-of-bounds read yielding `oob` *)
setup(f, dims, oob) ==
    LET d1 == IF Len(dims) >= 2 THEN dims[2] ELSE oob
    IN  [f EXCEPT !.mNumPixels = dims[1] * d1,
                  !.mNumChannels = IF Len(dims) > 2 THEN dims[3] ELSE 1,
                  !.mDims = dims]

setProperties(f, numGaussians, initialVariance, initialWeight, varianceThreshold, minBGRatio) ==
    [f EXCEPT !.mNumGaussians = numGaussians,
              !.mInitialVariance = initialVariance,
              !.mInitialWeight = initialWeight,
              !.mVarianceThreshold = varianceThreshold,
              !.mMinimumBackgroundRatio = minBGRatio]

(* the store initializeImpl allocates: one empty model per pixel *)
FreshStore(numPixels) == [i \in 1..numPixels |-> EmptyModel]

(* the configuration part of the functor: everything but the step input *)
Config(f) == NoFrame(f)

initializeImpl(dims, numGaussians, initialVariance, initialWeight, varianceThreshold, minBGRatio) ==
    /\ Alive /\ Idle
    /\ lastCall' = "initialize"
    /\ IF Len(dims) < 2 /\ ~NDEBUG
       THEN /\ err' = "abort"
            /\ saved' = NoArrays
            /\ UNCHANGED <<mFtor, mGMMVec>>
       ELSE \E oob \in (IF Len(dims) < 2 THEN Garbage ELSE {0}) :
            LET f1 == setup(NoFrame(mFtor), dims, oob)
                f2 == setProperties(f1, numGaussians, initialVariance, initialWeight,
                                    varianceThreshold, minBGRatio)
            IN  /\ mGMMVec' = FreshStore(f2.mNumPixels)
                /\ mFtor' = [f2 EXCEPT !.mGMMPtr = "mGMMVec"]
                /\ err' = "none"
                \* exported arrays are kept for a detector of identical configuration
                /\ saved' = IF mFtor' = Config(mFtor) THEN saved ELSE NoArrays
    /\ mask' = <<>> /\ pre' = <<>> /\ touched' = <<>> /\ chunks' = {}
    /\ UNCHANGED <<NDEBUG, arm, called, created, pool, running, budget>>

(* initialize with any arguments *)
Initialize ==
    \E dims \in ValidDims \cup MalformedDims, numGaussians \in 0..MaxGaussians,
       initialVariance \in InitialVariances, initialWeight \in InitialWeights,
       varianceThreshold \in VarianceThresholds, minBGRatio \in MinBGRatios :
        initializeImpl(dims, numGaussians, initialVariance, initialWeight,
                       varianceThreshold, minBGRatio)

(* the first initialize of a constructed detector, with numGaussians >= 1 and
   well-formed dims *)
InitializeValid ==
    /\ lastCall = "construct"
    /\ \E dims \in ValidDims, numGaussians \in 1..MaxGaussians,
          initialVariance \in InitialVariances, initialWeight \in InitialWeights,
          varianceThreshold \in VarianceThresholds, minBGRatio \in MinBGRatios :
           initializeImpl(dims, numGaussians, initialVariance, initialWeight,
                          varianceThreshold, minBGRatio)

(* resetImpl clearing the first pixel's model only *)
resetImplFirstOnly ==
    /\ Alive /\ Idle
    /\ mGMMVec' = [i \in 1..Len(mGMMVec) |-> IF i = 1 THEN EmptyModel ELSE mGMMVec[i]]
    /\ mFtor' = NoFrame(mFtor)
    /\ lastCall' = "reset"
    /\ err' = "none"
    /\ mask' = <<>> /\ pre' = mGMMVec /\ touched' = <<>> /\ chunks' = {}
    /\ UNCHANGED <<NDEBUG, arm, called, created, pool, running, saved, budget>>

resetImpl ==
    /\ Alive /\ Idle
    /\ mGMMVec' = [i \in 1..Len(mGMMVec) |-> EmptyModel]
    /\ mFtor' = NoFrame(mFtor)
    /\ lastCall' = "reset"
    /\ err' = "none"
    /\ mask' = <<>> /\ pre' = mGMMVec /\ touched' = <<>> /\ chunks' = {}
    /\ UNCHANGED <<NDEBUG, arm, called, created, pool, running, saved, budget>>

(* releaseImpl clearing the models and keeping the store *)
releaseImplModels ==
    /\ Alive /\ Idle
    /\ mGMMVec' = [i \in 1..Len(mGMMVec) |-> EmptyModel]
    /\ mFtor' = NoFrame(mFtor)
    /\ lastCall' = "release"
    /\ err' = "none"
    /\ mask' = <<>> /\ pre' = <<>> /\ touched' = <<>> /\ chunks' = {}
    /\ UNCHANGED <<NDEBUG, arm, called, created, pool, running, saved, budget>>

releaseImpl ==
    /\ Alive /\ Idle
    /\ mGMMVec' = <<>>
    /\ mFtor' = NoFrame(mFtor)
    /\ lastCall' = "release"
    /\ err' = "none"
    /\ mask' = <<>> /\ pre' = <<>> /\ touched' = <<>> /\ chunks' = {}
    /\ UNCHANGED <<NDEBUG, arm, called, created, pool, running, saved, budget>>

(* mFtor.getNumPixels(): mNumPixels is assigned by setup only, so before the
   first initialize the read yields an indeterminate value *)
NumPixelsRead == IF mFtor.mGMMPtr = "NULL" THEN Garbage ELSE {mFtor.mNumPixels}

(* the frame and mask buffers the caller passes: sized by the dims it configured,
   and by a 1x2 single-channel frame when it never configured any *)
CallerPixels == IF mFtor.mGMMPtr = "NULL" THEN 2 ELSE mFtor.mNumPixels
CallerSamples ==
    IF mFtor.mGMMPtr = "NULL" THEN 2 ELSE mFtor.mNumPixels * mFtor.mNumChannels
Images == [1..CallerSamples -> PixelValues]

(* the samples one more step costs; a step on an empty frame costs one *)
StepCost == IF CallerSamples = 0 THEN 1 ELSE CallerSamples

(* what every step entry point does before the functor runs: setOutputBuffer on
   the caller's (zeroed) mask, setStepInput.  Arrays a get_states filled earlier
   describe the store before this step; the caller does not keep them across it. *)
StepEntry(image, learningRate, rowMajor) ==
    /\ Alive /\ Idle
    /\ StepCost <= budget
    /\ budget' = budget - StepCost
    /\ mFtor' = [mFtor EXCEPT !.mImage = image, !.mLearningRate = learningRate]
    /\ pre' = mGMMVec
    /\ lastCall' = IF rowMajor THEN "step_rowMaj" ELSE "step"
    /\ saved' = NoArrays
    /\ UNCHANGED <<NDEBUG, arm, called, created>>

StepStart == [vec |-> mGMMVec,
              mask |-> [i \in 1..CallerPixels |-> FALSE],
              touched |-> [i \in 1..CallerPixels |-> 0],
              err |-> "none"]

(* #ifdef __arm__: mFtor(0, mFtor.getNumPixels()) on the calling thread *)
(* the store, the mask buffer and the outcome the functor leaves behind; prior
   is the outcome of the step so far *)
Leaves(st, prior) ==
    /\ mGMMVec' = st.vec
    /\ mask' = st.mask
    /\ touched' = st.touched
    /\ err' = IF st.err = "none" THEN prior ELSE st.err

stepSequential(n, rowMajor) ==
    /\ Leaves(FunctorCall(mFtor', StepStart, 0, n, rowMajor, NDEBUG), "none")
    /\ chunks' = {[begin |-> 0, end |-> n, rowMajor |-> rowMajor]}
    /\ UNCHANGED <<pool, running>>

(* #else: tbb::parallel_for over blocked_range(0, getNumPixels(), 1) with an
   auto_partitioner; an empty range runs no body.  The call returns when pool and
   running are empty again. *)
stepParallel(n, rowMajor) ==
    /\ pool' = IF n > 0 THEN {[begin |-> 0, end |-> n, rowMajor |-> rowMajor]} ELSE {}
    /\ running' = {}
    /\ chunks' = {}
    /\ mask' = StepStart.mask
    /\ touched' = StepStart.touched
    /\ err' = "none"
    /\ UNCHANGED mGMMVec

stepImpl ==
    \E image \in Images, learningRate \in LearningRates, n \in NumPixelsRead :
        /\ StepEntry(image, learningRate, FALSE)
        /\ IF arm THEN stepSequential(n, FALSE) ELSE stepParallel(n, FALSE)

stepImplRowMajor ==
    \E image \in Images, learningRate \in LearningRates, n \in NumPixelsRead :
        /\ StepEntry(image, learningRate, TRUE)
        /\ IF arm THEN stepSequential(n, TRUE) ELSE stepParallel(n, TRUE)

(* Split with the right part starting one pixel early *)
SplitOverlapping ==
    /\ Alive
    /\ \E r \in pool :
        /\ r.end - r.begin > 1
        /\ LET middle == r.begin + (r.end - r.begin) \div 2
           IN  pool' = (pool \ {r}) \cup {[r EXCEPT !.end = middle],
                                         [r EXCEPT !.begin = middle - 1]}
    /\ UNCHANGED <<NDEBUG, arm, called, created, mFtor, mGMMVec, mask, running, chunks, pre, touched,
                   saved, lastCall, err, budget>>

(* the partitioner divides a sub-range longer than the grain size 1 at its middle *)
Split ==
    /\ Alive
    /\ \E r \in pool :
        /\ r.end - r.begin > 1
        /\ LET middle == r.begin + (r.end - r.begin) \div 2
           IN  pool' = (pool \ {r}) \cup {[r EXCEPT !.end = middle],
                                         [r EXCEPT !.begin = middle]}
    /\ UNCHANGED <<NDEBUG, arm, called, created, mFtor, mGMMVec, mask, running, chunks, pre, touched,
                   saved, lastCall, err, budget>>

(* a worker invokes operator()(range) on a sub-range: the model-pointer assertion,
   then the loop is entered *)
Invoke ==
    /\ Alive
    /\ \E r \in pool :
        LET entry == FunctorEntry(mFtor, r.begin, r.end, r.rowMajor, NDEBUG)
        IN  /\ pool' = pool \ {r}
            /\ chunks' = chunks \cup {r}
            /\ running' = IF entry = "ok" THEN running \cup {r} ELSE running
            /\ err' = IF entry = "ok" THEN err ELSE entry
    /\ UNCHANGED <<NDEBUG, arm, called, created, mFtor, mGMMVec, mask, pre, touched, saved, lastCall,
                   budget>>

(* what one iteration of a worker on sub-range r leaves behind: the rest of r
   stays with the worker; an exception ends it and cancels the pending sub-ranges *)
Iterated(r, st) ==
    /\ Leaves(st, err)
    /\ running' = IF st.err = "none" /\ r.begin + 1 # r.end
                  THEN (running \ {r}) \cup {[r EXCEPT !.begin = r.begin + 1]}
                  ELSE running \ {r}
    /\ pool' = IF st.err = "none" THEN pool ELSE {}

(* the store and the buffers as a running worker finds them *)
Current == [vec |-> mGMMVec, mask |-> mask, touched |-> touched, err |-> "none"]

(* Iterate reading the frame at the last pixel of the worker's sub-range *)
IterateAtRangeEnd ==
    /\ Alive
    /\ \E r \in running :
        Iterated(r, LoopBody(mFtor, Current,
                             IF r.rowMajor THEN (r.end - 1) * mFtor.mNumChannels
                                           ELSE r.end - 1,
                             r.begin, r.rowMajor, NDEBUG))
    /\ UNCHANGED <<NDEBUG, arm, called, created, mFtor, chunks, pre, saved, lastCall, budget>>

(* a worker runs one iteration of the loop of runAlgorithm / runAlgorithmRowMajor;
   an exception leaves the body and cancels the sub-ranges not yet started *)
Iterate ==
    /\ Alive
    /\ \E r \in running :
        Iterated(r, LoopBody(mFtor, Current,
                             IF r.rowMajor THEN r.begin * mFtor.mNumChannels
                                           ELSE r.begin,
                             r.begin, r.rowMajor, NDEBUG))
    /\ UNCHANGED <<NDEBUG, arm, called, created, mFtor, chunks, pre, saved, lastCall, budget>>

(* the arrays a caller allocates for a detector of configuration f, zero-filled:
   weights [M N K], means and variances [M N C K], numActive [M N] *)
ZeroArrays(f) ==
    [held |-> FALSE,
     weights |-> [i \in 1..(f.mNumPixels * f.mNumGaussians) |-> Zero],
     means |-> [i \in 1..(f.mNumPixels * f.mNumChannels * f.mNumGaussians) |-> Zero],
     variances |-> [i \in 1..(f.mNumPixels * f.mNumChannels * f.mNumGaussians) |-> Zero],
     numActive |-> [i \in 1..f.mNumPixels |-> 0],
     source |-> <<>>,
     overrun |-> FALSE]

(* dst[idx] = v and src[idx] on a 0-based array; an access past the end neither
   stores nor yields anything the model keeps (see overrun, ReadsPast) *)
Store(dst, idx, v) == IF idx < Len(dst) THEN [dst EXCEPT ![idx + 1] = v] ELSE dst
Load(src, idx) == IF idx < Len(src) THEN src[idx + 1] ELSE Zero

(* copyStat writing every channel to dst[0] *)
copyStatNoStride(src, dst, base, offset, i) ==
    IF src = <<>> THEN dst ELSE Store(dst, base, src[Len(src)])

(* copyStat(src, dst, offset) with dst pointing at element base: channel i goes to
   dst[i * offset] *)
RECURSIVE copyStat(_, _, _, _, _)
copyStat(src, dst, base, offset, i) ==
    IF i >= Len(src) THEN dst
    ELSE copyStat(src, Store(dst, base + i * offset, src[i + 1]), base, offset, i + 1)

(* the loop of getGMMStates from gaussian number g on, the array pointers having
   been advanced to pixel p by getStatesImpl *)
RECURSIVE CopyGaussians(_, _, _, _, _)
CopyGaussians(f, gmm, a, p, g) ==
    IF g >= Len(gmm) THEN a
    ELSE LET weight_offset == g * f.mNumPixels
             statOffset == f.mNumPixels * f.mNumChannels
             stats == p + g * statOffset
             last == stats + (Len(gmm[g + 1].mMean) - 1) * f.mNumPixels
         IN  CopyGaussians(f, gmm,
                 [a EXCEPT !.weights = Store(@, p + weight_offset, gmm[g + 1].mWeight),
                           !.means = copyStat(gmm[g + 1].mMean, @, stats,
                                              f.mNumPixels, 0),
                           !.variances = copyStat(gmm[g + 1].mVariance, @, stats,
                                                  f.mNumPixels, 0),
                           !.overrun = @ \/ p + weight_offset >= Len(a.weights)
                                         \/ last >= Len(a.means)],
                 p, g + 1)

getGMMStates(f, gmm, a, p) ==
    CopyGaussians(f, gmm, [a EXCEPT !.numActive = Store(@, p, Len(gmm))], p, 0)

RECURSIVE getStatesImpl(_, _, _, _)
getStatesImpl(f, vec, a, p) ==
    IF p >= Len(vec) THEN a
    ELSE getStatesImpl(f, vec, getGMMStates(f, vec[p + 1], a, p), p + 1)

(* WeightedGaussianAt reading the channels of a gaussian at unit stride *)
WeightedGaussianAtUnitStride(numChannels, numPixels, a, weight, stats) ==
    [mWeight |-> Load(a.weights, weight),
     mMean |-> [i \in 1..numChannels |-> Load(a.means, stats + (i - 1))],
     mVariance |-> [i \in 1..numChannels |-> Load(a.variances, stats + (i - 1))]]

(* WeightedGaussian(numChannels, numPixels, weight, mean, variance) from pointers
   into the arrays: channel i is at offset i * numPixels *)
WeightedGaussianAt(numChannels, numPixels, a, weight, stats) ==
    [mWeight |-> Load(a.weights, weight),
     mMean |-> [i \in 1..numChannels |-> Load(a.means, stats + (i - 1) * numPixels)],
     mVariance |-> [i \in 1..numChannels |->
                       Load(a.variances, stats + (i - 1) * numPixels)]]

(* the loop of setGMMStates from n on: one push_back per active gaussian *)
RECURSIVE setGMMStates(_, _, _, _, _, _)
setGMMStates(f, gmm, numActiveGaussians, a, p, n) ==
    IF ~(n < numActiveGaussians) THEN gmm
    ELSE LET weight_offset == f.mNumPixels
             stat_offset == f.mNumPixels * f.mNumChannels
         IN  setGMMStates(f,
                 Append(gmm, WeightedGaussianAt(f.mNumChannels, f.mNumPixels, a,
                                                p + n * weight_offset,
                                                p + n * stat_offset)),
                 numActiveGaussians, a, p, n + 1)

RECURSIVE setStatesImpl(_, _, _, _)
setStatesImpl(f, vec, a, i) ==
    IF i >= Len(vec) THEN vec
    ELSE setStatesImpl(f,
             [vec EXCEPT ![i + 1] = setGMMStates(f, @, a.numActive[i + 1], a, i, 0)],
             a, i + 1)

(* set_states reads past the end of the arrays: some pixel has more active
   gaussians than the arrays have room for *)
ReadsPast(f, a) == \E p \in 1..Len(a.numActive) : a.numActive[p] > f.mNumGaussians

(* get_states into zero-filled arrays the caller sized by the configuration; a
   write past their end corrupts the heap, which may or may not end the process *)
GetStates ==
    /\ Alive /\ Idle
    /\ LET a == getStatesImpl(mFtor, mGMMVec, ZeroArrays(mFtor), 0)
       IN  /\ saved' = [a EXCEPT !.held = TRUE, !.source = mGMMVec]
           /\ err' \in (IF a.overrun THEN {"none", "segv"} ELSE {"none"})
    /\ mFtor' = NoFrame(mFtor)
    /\ lastCall' = "get_states"
    /\ mask' = <<>> /\ pre' = <<>> /\ touched' = <<>> /\ chunks' = {}
    /\ UNCHANGED <<NDEBUG, arm, called, created, mGMMVec, pool, running, budget>>

(* set_states with the arrays a get_states on a detector of the same configuration
   filled; the caller passes them once *)
SetStates ==
    /\ Alive /\ Idle
    /\ saved.held
    /\ LET vec == setStatesImpl(mFtor, mGMMVec, saved, 0)
       IN  /\ \A p \in 1..Len(vec) : Len(vec[p]) <= MaxLoaded
           /\ mGMMVec' = vec
    /\ err' \in (IF mGMMVec # <<>> /\ ReadsPast(mFtor, saved)
                 THEN {"none", "segv"} ELSE {"none"})
    /\ mFtor' = NoFrame(mFtor)
    /\ saved' = NoArrays
    /\ lastCall' = "set_states"
    /\ mask' = <<>> /\ pre' = <<>> /\ touched' = <<>> /\ chunks' = {}
    /\ UNCHANGED <<NDEBUG, arm, called, created, pool, running, budget>>

(* a step whose frame values are drawn from palette and whose learning rate is
   drawn from rates *)
stepFrom(palette, rates, rowMajor) ==
    \E image \in [1..CallerSamples -> palette], learningRate \in rates,
       n \in NumPixelsRead :
        /\ StepEntry(image, learningRate, rowMajor)
        /\ IF arm THEN stepSequential(n, rowMajor) ELSE stepParallel(n, rowMajor)

(* frame values close enough for several gaussians to match one of them, and
   four values that never match each other's gaussians *)
PixelPalette == {0, 1, 2, 8, 16, 24}

StepPixel == stepFrom(PixelPalette, LearningRates, FALSE)

StepPixelRowMajor == stepFrom(PixelPalette, LearningRates, TRUE)

(* two-pixel, two-channel frames, where the planar and the interleaved encoding
   differ; one channel off by 2 still matches a fresh gaussian, both do not *)
LayoutPalette == {0, 2}

StepLayout == stepFrom(LayoutPalette, LearningRates, FALSE)

StepLayoutRowMajor == stepFrom(LayoutPalette, LearningRates, TRUE)

InitializeLayout ==
    /\ lastCall = "construct"
    /\ \E numGaussians \in 1..MaxGaussians,
          initialVariance \in InitialVariances, initialWeight \in InitialWeights,
          varianceThreshold \in VarianceThresholds, minBGRatio \in MinBGRatios :
           initializeImpl(<<1, 2, 2>>, numGaussians, initialVariance, initialWeight,
                          varianceThreshold, minBGRatio)

(* frames of two pixels, where pixel and gaussian strides of the state arrays
   differ, for get_states and set_states *)
StatePalette == {0, 8}
StateDims == {<<1, 2>>, <<1, 2, 2>>}

StepState == stepFrom(StatePalette, LearningRates, FALSE)

InitializeState ==
    /\ lastCall = "construct"
    /\ \E dims \in StateDims, numGaussians \in 1..MaxGaussians,
          initialVariance \in InitialVariances, initialWeight \in InitialWeights,
          varianceThreshold \in VarianceThresholds, minBGRatio \in MinBGRatios :
           initializeImpl(dims, numGaussians, initialVariance, initialWeight,
                          varianceThreshold, minBGRatio)

(* the static-scene and sudden-change scenarios: gray 128 and white 255 frames of
   two pixels at learning rate 0.05, on a detector initialized with
   numGaussians 3, initialVariance 36, initialWeight 0.05, minBackgroundRatio 0.7 *)
ScenePalette == {128, 255}
SceneDims == {<<1, 2>>}
SceneLearningRates == {<<1, 20>>}

StepScene == stepFrom(ScenePalette, SceneLearningRates, FALSE)

StepSceneRowMajor == stepFrom(ScenePalette, SceneLearningRates, TRUE)

InitializeScene ==
    /\ lastCall = "construct"
    /\ \E dims \in SceneDims, varianceThreshold \in VarianceThresholds :
           initializeImpl(dims, 3, <<36, 1>>, <<1, 20>>, varianceThreshold, <<7, 10>>)

(* the first initialize of a constructed detector for one single-channel pixel *)
InitializePixel ==
    /\ lastCall = "construct"
    /\ \E numGaussians \in 1..MaxGaussians,
          initialVariance \in InitialVariances, initialWeight \in InitialWeights,
          varianceThreshold \in VarianceThresholds, minBGRatio \in MinBGRatios :
           initializeImpl(<<1, 1>>, numGaussians, initialVariance, initialWeight,
                          varianceThreshold, minBGRatio)

(* what a direct call of isForeground did: the scan ran off the list (atEnd), and
   the classification it returned, "none" when the assertion ended the process *)
Outcome(m, class, ndebug) ==
    [matchingGaussian |-> m,
     atEnd |-> class = "end",
     returned |-> IF class = "end" THEN (IF ndebug THEN "bg" ELSE "none") ELSE class]

(* isForeground is a public member: a direct call on the model of a pixel with any
   iterator of that model, end() included *)
CallIsForeground ==
    /\ Alive /\ Idle
    /\ mFtor.mGMMPtr # "NULL"
    /\ \E p \in 1..Len(mGMMVec) : \E m \in 1..(Len(mGMMVec[p]) + 1) :
        /\ called' = Outcome(m, isForeground(mFtor, mGMMVec[p], m), NDEBUG)
        /\ err' = IF called'.atEnd /\ ~NDEBUG THEN "abort" ELSE "none"
    /\ lastCall' = "isForeground"
    /\ UNCHANGED <<NDEBUG, arm, created, mFtor, mGMMVec, mask, pool, running, chunks,
                   pre, touched, saved, budget>>

(* initial weights of a float detector: the float values of 1, 0.5, 0.05, 0.21,
   0.7, 0.85, 0.640625 and 0.3 *)
StatWeights ==
    {<<8388608, -23>>, <<8388608, -24>>, <<13421773, -28>>, <<14092861, -26>>,
     <<11744051, -24>>, <<14260634, -24>>, <<10747904, -24>>, <<10066330, -25>>}

(* the no-match branch on an empty model where stat_type is float: the new
   gaussian has weight initialWeight, scaleFactor = one/weight, and
   normalizeWeights multiplies the weight by it *)
CreatedFirst(initialWeight) ==
    [made |-> TRUE, initialWeight |-> initialWeight,
     weight |-> StatMul(initialWeight, StatInverse(initialWeight))]

(* the first step of a float detector, as far as the weight of the gaussian it
   creates goes; the detector of the model was just initialized the same way but
   for its exact arithmetic *)
CreateFirst ==
    /\ Alive /\ Idle
    /\ lastCall = "initialize" /\ err = "none"
    /\ ~created.made
    /\ \E initialWeight \in StatWeights : created' = CreatedFirst(initialWeight)
    /\ UNCHANGED <<NDEBUG, arm, called, mFtor, mGMMVec, mask, pool, running, chunks,
                   pre, touched, saved, lastCall, err, budget>>

(* one single-channel pixel in the sequential build, and the first gaussian a
   float detector creates *)
InitCreate == Constructed /\ arm /\ budget = MaxCreateSamples

NextCreate ==
    \/ InitializePixel
    \/ StepPixel
    \/ StepPixelRowMajor
    \/ CreateFirst

SpecCreate == InitCreate /\ [][NextCreate]_vars

(* step takes the learning rate as given: the rate of the other specifications,
   and 1, the largest rate of an exponential-forgetting update *)
RateLearningRates == {<<1, 2>>, <<1, 1>>}

RatePalette == {0, 8}

StepRate == stepFrom(RatePalette, RateLearningRates, FALSE)

StepRateRowMajor == stepFrom(RatePalette, RateLearningRates, TRUE)

(* one single-channel pixel in the sequential build, stepped at either rate *)
InitRate == Constructed /\ arm /\ budget = MaxRateSamples

NextRate ==
    \/ InitializePixel
    \/ StepRate
    \/ StepRateRowMajor

SpecRate == InitRate /\ [][NextRate]_vars

-----------------------------------------------------------------------------
(* Specifications *)

(* every API call in any order, with any arguments, in every build *)
Init == Constructed /\ budget = MaxApiSamples

Next ==
    \/ Initialize
    \/ stepImpl
    \/ stepImplRowMajor
    \/ Split
    \/ Invoke
    \/ Iterate
    \/ GetStates
    \/ SetStates
    \/ resetImpl
    \/ releaseImpl

Spec == Init /\ [][Next]_vars

(* the build without TBB: a detector initialized once with numGaussians >= 1 and
   well-formed dims, then stepped and reset *)
InitSteps == Constructed /\ arm /\ budget = MaxSamples

NextSteps ==
    \/ InitializeValid
    \/ stepImpl
    \/ stepImplRowMajor
    \/ resetImpl

SpecSteps == InitSteps /\ [][NextSteps]_vars

(* the same detector in the TBB build *)
InitTbb == Constructed /\ ~arm /\ budget = MaxSamples

NextTbb ==
    \/ InitializeValid
    \/ stepImpl
    \/ stepImplRowMajor
    \/ Split
    \/ Invoke
    \/ Iterate
    \/ resetImpl

SpecTbb == InitTbb /\ [][NextTbb]_vars

(* one single-channel pixel in the sequential build: initialize once, then
   steps over PixelPalette and resets *)
InitPixel == Constructed /\ arm /\ budget = MaxPixelSamples

NextPixel ==
    \/ InitializePixel
    \/ StepPixel
    \/ StepPixelRowMajor
    \/ resetImpl

SpecPixel == InitPixel /\ [][NextPixel]_vars

(* two-pixel, two-channel frames in the sequential build *)
InitLayout == Constructed /\ arm /\ budget = MaxLayoutSamples

NextLayout ==
    \/ InitializeLayout
    \/ StepLayout
    \/ StepLayoutRowMajor

SpecLayout == InitLayout /\ [][NextLayout]_vars

(* steps on two-pixel frames, then get_states, reset and set_states *)
InitState == Constructed /\ arm /\ budget = MaxStateSamples

NextState ==
    \/ InitializeState
    \/ StepState
    \/ GetStates
    \/ SetStates
    \/ resetImpl

SpecState == InitState /\ [][NextState]_vars

(* the scenarios in the sequential build *)
InitScene == Constructed /\ arm /\ budget = MaxSceneSamples

NextScene ==
    \/ InitializeScene
    \/ StepScene
    \/ StepSceneRowMajor
    \/ resetImpl

SpecScene == InitScene /\ [][NextScene]_vars

(* steps as in SpecSteps within MaxCallSamples, and direct calls of isForeground
   on the models they leave *)
InitCall == Constructed /\ arm /\ budget = MaxCallSamples

NextCall ==
    \/ InitializeValid
    \/ stepImpl
    \/ stepImplRowMajor
    \/ CallIsForeground

SpecCall == InitCall /\ [][NextCall]_vars

-----------------------------------------------------------------------------
(* Properties *)

StepCalls == {"step", "step_rowMaj"}

(* the last call was a step, and it returned without an error *)
StepReturned == lastCall \in StepCalls /\ Idle /\ err = "none"

(* the detector is Ready: initialized with numGaussians >= 1 and well-formed dims,
   and not released *)
Ready ==
    /\ mFtor.mGMMPtr # "NULL"
    /\ mFtor.mNumGaussians >= 1
    /\ Len(mFtor.mDims) >= 2
    /\ Len(mGMMVec) = mFtor.mNumPixels

WeightSum(gmm) == RSum([i \in 1..Len(gmm) |-> gmm[i].mWeight])

(* no gaussian ranks above its predecessor *)
RankSorted(gmm) == \A i \in 1..(Len(gmm) - 1) : ~Greater(gmm[i + 1], gmm[i])

(* the result of findMatch on the model the last step found at pixel p (1-based),
   in the layout of that step *)
MatchIn(p) ==
    IF lastCall = "step_rowMaj"
    THEN findMatchRowMajor(mFtor, pre[p], (p - 1) * mFtor.mNumChannels)
    ELSE findMatch(mFtor, pre[p], p - 1)

(* C1: after a step of a detector initialized with numGaussians >= 1, the weights
   of every non-empty model sum to 1. *)
WeightsSumToOne ==
    (StepReturned /\ mFtor.mNumGaussians >= 1) =>
        \A p \in 1..Len(mGMMVec) :
            mGMMVec[p] # <<>> => WeightSum(mGMMVec[p]) = One

(* C2: after a step, every model is ordered by non-increasing rank. *)
ModelsRankSorted ==
    StepReturned => \A p \in 1..Len(mGMMVec) : RankSorted(mGMMVec[p])

(* C3: a detector initialized with numGaussians = K >= 1, then stepped (either
   layout) and reset in any order, never holds more than K gaussians for a pixel. *)
Capacity ==
    (mFtor.mGMMPtr # "NULL" /\ mFtor.mNumGaussians >= 1) =>
        \A p \in 1..Len(mGMMVec) : Len(mGMMVec[p]) <= mFtor.mNumGaussians

(* a step found a full model of K >= 2 gaussians, none matching the pixel, and
   replaced its last gaussian *)
CapacityEvicted ==
    /\ StepReturned
    /\ mFtor.mNumGaussians >= 2
    /\ \E p \in 1..Len(mGMMVec) :
        /\ Len(pre[p]) = mFtor.mNumGaussians
        /\ MatchIn(p) = Len(pre[p]) + 1
        /\ Len(mGMMVec[p]) = mFtor.mNumGaussians

(* the store and mask the loop leaves when it runs over all pixels in order on the
   calling thread, from the store the last step found *)
SequentialResult ==
    FunctorCall(mFtor,
                [vec |-> pre,
                 mask |-> [i \in 1..mFtor.mNumPixels |-> FALSE],
                 touched |-> [i \in 1..mFtor.mNumPixels |-> 0],
                 err |-> "none"],
                0, mFtor.mNumPixels, lastCall = "step_rowMaj", NDEBUG)

(* C4: whatever the partition into sub-ranges and the interleaving of the workers,
   a step of a Ready detector leaves the models and the mask that the in-order
   loop over all pixels leaves. *)
PartitionIndependent ==
    (StepReturned /\ Ready) =>
        /\ mGMMVec = SequentialResult.vec
        /\ mask = SequentialResult.mask

(* a step on a store that held gaussians returned after two workers' sub-ranges,
   with both classifications in its mask *)
PartitionedStepReturned ==
    /\ StepReturned
    /\ Cardinality(chunks) = 2
    /\ \E p \in 1..Len(pre) : pre[p] # <<>>
    /\ \E p, q \in 1..Len(mask) : mask[p] /\ ~mask[q]

InRange(r, id) == r.begin <= id /\ id < r.end
Disjoint(r1, r2) == r1.end <= r2.begin \/ r2.end <= r1.begin

(* C5: during a step of a Ready detector no two sub-ranges, pending or handed to a worker, share a
   pixel; a pixel's model and mask entry have been accessed once if no pending
   sub-range holds it and not at all otherwise, so that when the step returns each
   has been accessed exactly once. *)
ExactlyOnce ==
    (lastCall \in StepCalls /\ err = "none" /\ Ready) =>
        /\ \A r1, r2 \in pool \cup running : r1 # r2 => Disjoint(r1, r2)
        /\ \A c1, c2 \in chunks : c1 # c2 => Disjoint(c1, c2)
        /\ Len(touched) = mFtor.mNumPixels
        /\ \A p \in 1..Len(touched) :
            touched[p] = IF \E r \in pool \cup running : InRange(r, p - 1)
                         THEN 0 ELSE 1

(* a step returned after two workers each processed one pixel *)
TwoWorkersReturned ==
    /\ StepReturned
    /\ Cardinality(chunks) = 2
    /\ touched = <<1, 1>>

(* C6: set_states into a freshly initialized Ready detector, with the arrays
   get_states filled from a detector of the same configuration whose models are
   within capacity, leaves exactly the models that get_states read. *)
RoundTrip ==
    [][(/\ lastCall' = "set_states"
        /\ Ready
        /\ mGMMVec = FreshStore(mFtor.mNumPixels)
        /\ Len(saved.source) = mFtor.mNumPixels
        /\ \A p \in 1..Len(saved.source) :
               Len(saved.source[p]) <= mFtor.mNumGaussians)
       => (mGMMVec' = saved.source /\ err' = "none")]_vars

(* set_states has rebuilt a model of two different gaussians *)
RoundTripLoaded ==
    /\ lastCall = "set_states"
    /\ err = "none"
    /\ Ready
    /\ \E p \in 1..Len(mGMMVec) :
        /\ Len(mGMMVec[p]) = 2
        /\ mGMMVec[p][1].mMean # mGMMVec[p][2].mMean
        /\ WeightSum(mGMMVec[p]) = One

(* C7: reset of a Ready detector leaves what initialize with the same arguments
   leaves: the configuration and the number of models unchanged, every model
   empty, and get_states reporting numActive = 0 for every pixel. *)
ResetIsFreshInitialize ==
    [][(lastCall' = "reset" /\ Ready)
       => (/\ Config(mFtor') = Config(mFtor)
           /\ Len(mGMMVec') = Len(mGMMVec)
           /\ mGMMVec' = FreshStore(mFtor.mNumPixels)
           /\ getStatesImpl(mFtor', mGMMVec', ZeroArrays(mFtor'), 0).numActive
                  = [i \in 1..mFtor.mNumPixels |-> 0])]_vars

(* reset has emptied a model that held gaussians *)
ResetEmptied ==
    /\ lastCall = "reset"
    /\ Ready
    /\ \E p \in 1..Len(mGMMVec) : pre[p] # <<>> /\ mGMMVec[p] = <<>>

(* C8: a pixel whose model held exactly one gaussian, matched by the pixel, is
   classified background. *)
QuickExit ==
    StepReturned =>
        \A p \in 1..Len(pre) :
            (Len(pre[p]) = 1 /\ MatchIn(p) = 1) => (touched[p] = 1 /\ ~mask[p])

(* the case with a weight other than 1 and minBackgroundRatio 1 *)
QuickExitTaken ==
    /\ StepReturned
    /\ mFtor.mMinimumBackgroundRatio = One
    /\ \E p \in 1..Len(pre) :
        /\ Len(pre[p]) = 1
        /\ MatchIn(p) = 1
        /\ pre[p][1].mWeight # One
        /\ touched[p] = 1
        /\ ~mask[p]

(* C9: a step on a detector that is not Ready (never initialized, or released)
   reports an error, changes no model and writes no mask entry. *)
StepOnNotReadyReported ==
    (/\ lastCall \in StepCalls
     /\ Idle
     /\ (mFtor.mGMMPtr = "NULL" \/ Len(pre) # mFtor.mNumPixels))
    => (/\ err # "none"
        /\ mGMMVec = pre
        /\ \A p \in 1..Len(touched) : touched[p] = 0)

(* C10: initialize with numGaussians = 0 or with fewer than 2 dimensions leaves
   the detector uninitialized, without a store, and no pixel ever holds a
   gaussian under such a configuration. *)
BadConfigurationRejected ==
    /\ mFtor.mGMMPtr # "NULL" =>
           (mFtor.mNumGaussians >= 1 /\ Len(mFtor.mDims) >= 2)
    /\ (mFtor.mNumGaussians = 0 \/ Len(mFtor.mDims) < 2) =>
           (mGMMVec = <<>> \/ \A p \in 1..Len(mGMMVec) : mGMMVec[p] = <<>>)

(* C11: when the scan of isForeground runs off the end of a model without the
   cumulative weight reaching minBackgroundRatio, the call is fatal and returns
   no classification. *)
ScanEndIsFatal ==
    (lastCall = "isForeground" /\ called.atEnd) =>
        (err = "abort" /\ called.returned = "none")

(* a step of a Ready detector passes isForeground an iterator into the model, so
   its scan stops at the matching gaussian at the latest *)
StepScanStopsInList == (lastCall \in StepCalls /\ Ready) => err = "none"

(* the channel values the last step observed at pixel p (1-based), in the layout
   of that step *)
Observed(p) ==
    [c \in 1..mFtor.mNumChannels |->
        Sample(mFtor.mImage,
               IF lastCall = "step_rowMaj"
               THEN (p - 1) * mFtor.mNumChannels + (c - 1)
               ELSE (p - 1) + (c - 1) * mFtor.mNumPixels)]

(* gmm is one gaussian of weight 1 and positive variances whose mean is x *)
Converged(gmm, x) ==
    /\ Len(gmm) = 1
    /\ gmm[1].mWeight = One
    /\ gmm[1].mMean = x
    /\ \A c \in 1..Len(gmm[1].mVariance) : RLt(Zero, gmm[1].mVariance[c])

(* C12: the first frame a pixel observes leaves it background with one gaussian
   of weight 1 whose mean is the observed value, and a frame that repeats that
   value leaves it so; hence a static scene stays background with one gaussian of
   weight 1 and mean v after every step. *)
StaticScene ==
    (StepReturned /\ Ready) =>
        \A p \in 1..Len(pre) :
            (pre[p] = <<>> \/ Converged(pre[p], Observed(p))) =>
                (~mask[p] /\ Converged(mGMMVec[p], Observed(p)))

(* the third frame of a static scene: the gaussian has been updated before *)
StaticSceneThirdFrame ==
    /\ StepReturned /\ Ready
    /\ \E p \in 1..Len(pre) :
        /\ Converged(pre[p], Observed(p))
        /\ pre[p][1].mVariance[1] # mFtor.mInitialVariance
        /\ mGMMVec[p][1].mVariance[1] # pre[p][1].mVariance[1]

(* C13: in the scenario configuration, a pixel whose model is one gaussian of
   weight 1 and whose observed value does not match it is classified
   foreground. *)
SuddenChange ==
    (StepReturned /\ Ready) =>
        \A p \in 1..Len(pre) :
            (/\ Len(pre[p]) = 1
             /\ pre[p][1].mWeight = One
             /\ MatchIn(p) = 2) => mask[p]

(* white after two gray frames *)
SuddenChangeAfterStatic ==
    /\ StepReturned /\ Ready
    /\ \E p \in 1..Len(pre) :
        /\ Converged(pre[p], <<<<128, 1>>>>)
        /\ pre[p][1].mVariance[1] # mFtor.mInitialVariance
        /\ Observed(p) = <<<<255, 1>>>>
        /\ Len(mGMMVec[p]) = 2
        /\ mask[p]

(* C14: with numGaussians = 1 no pixel ever holds more than one gaussian, and a
   step whose pixel does not match the single gaussian leaves exactly one
   gaussian, a new one whose mean is the observed value. *)
EvictAndReplace ==
    (StepReturned /\ Ready /\ mFtor.mNumGaussians = 1) =>
        \A p \in 1..Len(pre) :
            /\ Len(mGMMVec[p]) <= 1
            /\ (Len(pre[p]) = 1 /\ MatchIn(p) = 2) =>
                   /\ Len(mGMMVec[p]) = 1
                   /\ mGMMVec[p][1].mMean = Observed(p)
                   /\ \A c \in 1..mFtor.mNumChannels :
                          mGMMVec[p][1].mVariance[c] = mFtor.mInitialVariance

(* the second switch of an alternating input: the gaussian replaced was itself
   installed by a replacement *)
EvictedTwice ==
    /\ StepReturned /\ Ready /\ mFtor.mNumGaussians = 1
    /\ \E p \in 1..Len(pre) :
        /\ Len(pre[p]) = 1
        /\ pre[p][1].mWeight # One
        /\ MatchIn(p) = 2
        /\ mGMMVec[p][1].mMean # pre[p][1].mMean

(* the interleaved encoding (channel c of pixel p at p*C + c) of a planar frame
   (channel c of pixel p at p + c*N), and the planar encoding of an interleaved
   one; offsets are 0-based, sequences 1-based *)
Interleaved(image, N, C) ==
    [k \in 1..Len(image) |-> image[((k - 1) \div C) + ((k - 1) % C) * N + 1]]
Planar(image, N, C) ==
    [k \in 1..Len(image) |-> image[((k - 1) % N) * C + ((k - 1) \div N) + 1]]

(* the last step's frame in the encoding of the other layout *)
OtherEncoding ==
    IF lastCall = "step_rowMaj"
    THEN Planar(mFtor.mImage, mFtor.mNumPixels, mFtor.mNumChannels)
    ELSE Interleaved(mFtor.mImage, mFtor.mNumPixels, mFtor.mNumChannels)

(* what the step of the other layout leaves, from the store the last step found,
   on the same channel values in its own encoding *)
OtherLayoutResult ==
    FunctorCall([mFtor EXCEPT !.mImage = OtherEncoding],
                [vec |-> pre,
                 mask |-> [i \in 1..mFtor.mNumPixels |-> FALSE],
                 touched |-> [i \in 1..mFtor.mNumPixels |-> 0],
                 err |-> "none"],
                0, mFtor.mNumPixels, lastCall # "step_rowMaj", NDEBUG)

(* C15: step on the planar encoding and step_row_major on the interleaved
   encoding of the same channel values leave the same models and the same mask,
   pixel by pixel, from any store. *)
LayoutEquivalence ==
    (StepReturned /\ Ready) =>
        /\ mGMMVec = OtherLayoutResult.vec
        /\ mask = OtherLayoutResult.mask

(* a step on a frame whose two encodings differ, from a store that held
   gaussians: one pixel was matched and its gaussian moved, the other was not *)
LayoutsDiffer ==
    /\ StepReturned /\ Ready
    /\ mFtor.mNumPixels = 2 /\ mFtor.mNumChannels = 2
    /\ OtherEncoding # mFtor.mImage
    /\ \E p, q \in 1..2 :
        /\ pre[p] # <<>> /\ pre[q] # <<>>
        /\ MatchIn(p) = 1 /\ mGMMVec[p][1].mMean # pre[p][1].mMean
        /\ MatchIn(q) = Len(pre[q]) + 1

(* the gaussian the arrays a hold for component g of pixel p (both 0-based) of a
   detector of C channels, when weights have stride wP per pixel and wG per
   gaussian, and means and variances stride sP per pixel, sC per channel and sG
   per gaussian *)
GaussianIn(a, C, p, g, wP, wG, sP, sC, sG) ==
    [mWeight |-> a.weights[p * wP + g * wG + 1],
     mMean |-> [c \in 1..C |-> a.means[p * sP + (c - 1) * sC + g * sG + 1]],
     mVariance |-> [c \in 1..C |-> a.variances[p * sP + (c - 1) * sC + g * sG + 1]]]

(* gaussian index innermost, pixel index outermost *)
GaussianInnermost(a, f, p, g) ==
    GaussianIn(a, f.mNumChannels, p, g,
               f.mNumGaussians, 1,
               f.mNumGaussians * f.mNumChannels, f.mNumGaussians, 1)

(* pixel index innermost, gaussian index outermost: [M N K] and [M N C K] *)
PixelInnermost(a, f, p, g) ==
    GaussianIn(a, f.mNumChannels, p, g,
               1, f.mNumPixels,
               1, f.mNumPixels, f.mNumPixels * f.mNumChannels)

WithinCapacity(vec, f) == \A p \in 1..Len(vec) : Len(vec[p]) <= f.mNumGaussians

(* C16 as claimed: get_states writes component g of pixel p with the gaussian
   index innermost and the pixel index outermost (weight at offset p*K + g). *)
StatesGaussianInnermost ==
    (/\ lastCall = "get_states" /\ err = "none" /\ Ready
     /\ WithinCapacity(saved.source, mFtor)) =>
        \A p \in 1..Len(saved.source) : \A g \in 1..Len(saved.source[p]) :
            GaussianInnermost(saved, mFtor, p - 1, g - 1) = saved.source[p][g]

(* C16 as amended: get_states writes, and set_states into an empty store reads,
   component g of pixel p with the pixel index innermost and the gaussian index
   outermost: weight at offset p + g*N, channel c of mean and variance at
   p + c*N + g*N*C, numActive at p. *)
StatesPixelInnermost ==
    [][/\ (lastCall' = "get_states" /\ Ready /\ WithinCapacity(mGMMVec, mFtor)) =>
            \A p \in 1..Len(mGMMVec) :
                /\ saved'.numActive[p] = Len(mGMMVec[p])
                /\ \A g \in 1..Len(mGMMVec[p]) :
                       PixelInnermost(saved', mFtor, p - 1, g - 1) = mGMMVec[p][g]
       /\ (/\ lastCall' = "set_states" /\ Ready
           /\ mGMMVec = FreshStore(mFtor.mNumPixels)
           /\ Len(saved.numActive) = mFtor.mNumPixels
           /\ \A p \in 1..Len(saved.numActive) :
                  saved.numActive[p] <= mFtor.mNumGaussians) =>
            \A p \in 1..Len(mGMMVec') :
                /\ Len(mGMMVec'[p]) = saved.numActive[p]
                /\ \A g \in 1..Len(mGMMVec'[p]) :
                       mGMMVec'[p][g] = PixelInnermost(saved, mFtor, p - 1, g - 1)
      ]_vars

(* set_states has rebuilt, for two pixels, models that differ, one of them of two
   gaussians *)
StatesLoadedTwoPixels ==
    /\ lastCall = "set_states" /\ err = "none" /\ Ready
    /\ mFtor.mNumPixels = 2
    /\ mGMMVec[1] # mGMMVec[2]
    /\ \A p \in 1..2 : mGMMVec[p] # <<>> /\ WeightSum(mGMMVec[p]) = One
    /\ \E p \in 1..2 : Len(mGMMVec[p]) = 2

(* C17 as claimed: a step whose pixel matches no gaussian of a non-empty model
   classifies the pixel as foreground. *)
UnmatchedIsForeground ==
    (StepReturned /\ Ready) =>
        \A p \in 1..Len(pre) :
            (pre[p] # <<>> /\ MatchIn(p) = Len(pre[p]) + 1) => mask[p]

(* the weights of the gaussians before position j (1-based) sum to at least the
   minimum background ratio *)
PrefixReaches(f, gmm, j) ==
    RLe(f.mMinimumBackgroundRatio, WeightSum(SubSeq(gmm, 1, j - 1)))

(* C17 as amended: a step whose pixel matches no gaussian of a non-empty model
   classifies the pixel as foreground exactly when the new gaussian is not alone
   and the renormalised weights of the gaussians before it sum to at least the
   minimum background ratio. *)
UnmatchedClassification ==
    (StepReturned /\ Ready) =>
        \A p \in 1..Len(pre) :
            (pre[p] # <<>> /\ MatchIn(p) = Len(pre[p]) + 1) =>
                (mask[p] <=> (/\ Len(mGMMVec[p]) >= 2
                              /\ PrefixReaches(mFtor, mGMMVec[p], Len(mGMMVec[p]))))

(* an unmatched value at a pixel that held two gaussians of three is foreground,
   while another one, at a minimum background ratio of 1, is background *)
UnmatchedBothWays ==
    /\ StepReturned /\ Ready
    /\ \E p \in 1..Len(pre) :
        /\ Len(pre[p]) = 2 /\ mFtor.mNumGaussians = 3
        /\ MatchIn(p) = 3
        /\ (mFtor.mMinimumBackgroundRatio = One => ~mask[p])
        /\ (mFtor.mMinimumBackgroundRatio # One => mask[p])

(* the position (1-based) at which the last step left the matched or new gaussian
   of pixel p: the iterator findMatchAndUpdate returned on the model it found *)
RankedPosition(p) ==
    IF lastCall = "step_rowMaj"
    THEN findMatchAndUpdateRowMajor(mFtor, pre[p], (p - 1) * mFtor.mNumChannels).match
    ELSE findMatchAndUpdate(mFtor, pre[p], p - 1).match

(* C18: after a step, a pixel whose matched or new gaussian is first in the model
   is background; otherwise it is foreground exactly when the weights of the
   gaussians before that one sum to at least the minimum background ratio. *)
ClassificationRule ==
    (StepReturned /\ Ready) =>
        \A p \in 1..Len(pre) :
            mask[p] <=> (/\ RankedPosition(p) > 1
                         /\ PrefixReaches(mFtor, mGMMVec[p], RankedPosition(p)))

(* a step matched a gaussian that stayed behind the first one, and the pixel is
   foreground *)
ClassifiedBehindFirst ==
    /\ StepReturned /\ Ready
    /\ \E p \in 1..Len(pre) :
        /\ MatchIn(p) <= Len(pre[p]) /\ RankedPosition(p) > 1 /\ mask[p]

(* the last step found the model of pixel p at capacity with no gaussian
   matching, so its pop_back removed the last gaussian *)
EvictedAt(p) ==
    /\ pre[p] # <<>>
    /\ Len(pre[p]) = mFtor.mNumGaussians
    /\ MatchIn(p) = Len(pre[p]) + 1

(* C19: whenever a step evicts, the gaussian removed (the last one) has minimal
   rank among the gaussians of the model: it ranks above none of them. *)
EvictsLowestRank ==
    (StepReturned /\ Ready) =>
        \A p \in 1..Len(pre) :
            EvictedAt(p) =>
                \A i \in 1..Len(pre[p]) : ~Greater(pre[p][Len(pre[p])], pre[p][i])

(* the positions of the model the last step found at pixel p whose gaussian
   satisfies isMatch for the values observed there *)
Matching(p) ==
    {i \in 1..Len(pre[p]) :
        RLt(RSum([c \in 1..Len(pre[p][i].mMean) |->
                     SqDist(Observed(p)[c], pre[p][i].mMean[c])]),
            RMul(mFtor.mVarianceThreshold, RSum(pre[p][i].mVariance)))}

Lowest(S) == CHOOSE i \in S : \A j \in S : i <= j

Stats(g) == [mMean |-> g.mMean, mVariance |-> g.mVariance]

(* gmm and expected hold the same means and variances, whatever their order *)
SameStats(gmm, expected) ==
    /\ Len(gmm) = Len(expected)
    /\ \A i \in 1..Len(expected) :
        Cardinality({k \in 1..Len(gmm) : Stats(gmm[k]) = Stats(expected[i])})
            = Cardinality({k \in 1..Len(expected) :
                              Stats(expected[k]) = Stats(expected[i])})

(* the model pre[p] with its gaussian at position i updated by the values
   observed at p *)
UpdatedAt(p, i) ==
    [pre[p] EXCEPT ![i] = UpdateWith(pre[p][i], Observed(p), mFtor.mLearningRate,
                                     mFtor.mNumChannels)]

(* the gaussians of pre[p] that outlive an unmatched observation *)
Surviving(p) ==
    IF pre[p] # <<>> /\ Len(pre[p]) = mFtor.mNumGaussians
    THEN SubSeq(pre[p], 1, Len(pre[p]) - 1)
    ELSE pre[p]

(* C20: after a step, where some gaussian of the model matched the pixel, the
   lowest matching position is the one updated (every other gaussian keeps its
   mean and variance) and the one classification used; where none matched, the
   gaussians kept have their means and variances and a new gaussian is last. *)
FirstMatchWins ==
    (StepReturned /\ Ready) =>
        \A p \in 1..Len(pre) :
            IF Matching(p) # {}
            THEN /\ MatchIn(p) = Lowest(Matching(p))
                 /\ SameStats(mGMMVec[p], UpdatedAt(p, Lowest(Matching(p))))
                 /\ Stats(mGMMVec[p][RankedPosition(p)])
                        = Stats(UpdatedAt(p, Lowest(Matching(p)))[Lowest(Matching(p))])
            ELSE /\ Len(mGMMVec[p]) = Len(Surviving(p)) + 1
                 /\ \A i \in 1..Len(Surviving(p)) :
                        Stats(mGMMVec[p][i]) = Stats(Surviving(p)[i])
                 /\ RankedPosition(p) = Len(mGMMVec[p])
                 /\ mGMMVec[p][Len(mGMMVec[p])].mMean = Observed(p)

(* a step observed a value that two gaussians of the model match, and updating
   either would give different models *)
SeveralMatched ==
    /\ StepReturned /\ Ready
    /\ \E p \in 1..Len(pre) : \E i, j \in Matching(p) :
        i < j /\ ~SameStats(UpdatedAt(p, i), UpdatedAt(p, j))

(* the last step found a gaussian matching the pixel in the model of pixel p *)
MatchedAt(p) == MatchIn(p) <= Len(pre[p])

(* gmm with its gaussian at position m taken out and put in at position j <= m *)
Moved(gmm, m, j) ==
    [i \in 1..Len(gmm) |->
        IF i < j THEN gmm[i]
        ELSE IF i = j THEN gmm[m]
        ELSE IF i <= m THEN gmm[i - 1]
        ELSE gmm[i]]

(* the model of pixel p is its model before the step with the gaussian at m
   updated and moved to position j, in means and variances *)
PercolatedTo(p, m, j) ==
    /\ j >= 1 /\ j <= m
    /\ Len(mGMMVec[p]) = Len(pre[p])
    /\ \A i \in 1..Len(pre[p]) :
        Stats(mGMMVec[p][i]) = Stats(Moved(UpdatedAt(p, m), m, j)[i])
    /\ \A k \in j..(m - 1) : Greater(UpdatedAt(p, m)[m], UpdatedAt(p, m)[k])
    /\ j > 1 => ~Greater(UpdatedAt(p, m)[m], UpdatedAt(p, m)[j - 1])

(* C21: after a matched step the matched gaussian, updated, has moved toward the
   front past exactly the predecessors it outranks, up to the first one it does
   not outrank; the other gaussians keep their order, and the position returned
   is that of the matched gaussian. *)
PercolateUp ==
    (StepReturned /\ Ready) =>
        \A p \in 1..Len(pre) :
            MatchedAt(p) => PercolatedTo(p, MatchIn(p), RankedPosition(p))

(* a step matched a gaussian behind the first one and moved it toward the front *)
PercolatedUp ==
    /\ StepReturned /\ Ready
    /\ \E p \in 1..Len(pre) :
        /\ MatchedAt(p)
        /\ RankedPosition(p) < MatchIn(p)
        /\ Len(pre[p]) >= 2

(* the scale factor of an unmatched step at pixel p as the algorithm derives it:
   from the initial weight less the weight of the gaussian evicted, if any *)
CreationScaleFactor(p) ==
    LET weight == IF EvictedAt(p)
                  THEN RSub(mFtor.mInitialWeight, pre[p][Len(pre[p])].mWeight)
                  ELSE mFtor.mInitialWeight
    IN  IF Len(mGMMVec[p]) = 1 THEN RDiv(One, weight) ELSE RDiv(One, RAdd(One, weight))

(* the last gaussian of pixel p is the one an unmatched step creates from the
   values observed at p *)
CreatedAt(p) ==
    /\ mGMMVec[p] # <<>>
    /\ RankedPosition(p) = Len(mGMMVec[p])
    /\ mGMMVec[p][Len(mGMMVec[p])].mMean = Observed(p)
    /\ mGMMVec[p][Len(mGMMVec[p])].mVariance
           = [c \in 1..mFtor.mNumChannels |-> mFtor.mInitialVariance]
    /\ mGMMVec[p][Len(mGMMVec[p])].mWeight
           = RMul(mFtor.mInitialWeight, CreationScaleFactor(p))
    /\ pre[p] = <<>> => Len(mGMMVec[p]) = 1

(* after an unmatched step the new gaussian is last, with the observed mean, the
   initial variance and the initial weight times the scale factor, alone in a
   model that was empty *)
CreatedByUnmatched ==
    (StepReturned /\ Ready) =>
        \A p \in 1..Len(pre) : ~MatchedAt(p) => CreatedAt(p)

(* C22 as claimed: CreatedByUnmatched, and the first gaussian of a model has
   weight exactly 1, in a float detector as well. *)
CreationExact ==
    /\ CreatedByUnmatched
    /\ created.made => created.weight = StatOne

(* C22 as amended: CreatedByUnmatched, and the first gaussian of a model has
   weight 1 in exact arithmetic; as a float detector rounds
   initialWeight * (1 / initialWeight), it is 1 or the largest float below 1. *)
Creation ==
    /\ CreatedByUnmatched
    /\ created.made => created.weight \in {StatOne, StatBelowOne}

(* a float detector gave a first gaussian a weight below 1, and a later step
   of the detector created a gaussian in a model that was not empty *)
CreatedBelowOne ==
    /\ StepReturned /\ Ready
    /\ created.made /\ created.weight = StatBelowOne
    /\ \E p \in 1..Len(pre) : pre[p] # <<>> /\ ~MatchedAt(p)

(* gmm is `from` with every weight multiplied by factor and nothing else changed *)
ScaledFrom(gmm, from, factor) ==
    /\ Len(gmm) = Len(from)
    /\ \A i \in 1..Len(from) :
        /\ Stats(gmm[i]) = Stats(from[i])
        /\ gmm[i].mWeight = RMul(from[i].mWeight, factor)

(* the scale factor of a matched step at pixel p as the algorithm derives it:
   from the weight of the matched gaussian before its update *)
MatchedScaleFactor(p) ==
    RDiv(One, RAdd(One, RMul(mFtor.mLearningRate,
                             RSub(One, pre[p][MatchIn(p)].mWeight))))

(* C23: a matched step leaves the count, updates the matched gaussian alone
   (moved to its ranked position) and multiplies every weight by the scale factor;
   an unmatched step leaves the surviving gaussians but for their weights, all
   multiplied by the scale factor, and appends one: the count grows by one below
   capacity and stays at capacity. *)
StepFrame ==
    (StepReturned /\ Ready) =>
        \A p \in 1..Len(pre) :
            IF MatchedAt(p)
            THEN ScaledFrom(mGMMVec[p],
                            Moved(UpdatedAt(p, MatchIn(p)), MatchIn(p), RankedPosition(p)),
                            MatchedScaleFactor(p))
            ELSE /\ ScaledFrom(SubSeq(mGMMVec[p], 1, Len(mGMMVec[p]) - 1),
                               Surviving(p), CreationScaleFactor(p))
                 /\ Len(mGMMVec[p]) = IF Len(pre[p]) < mFtor.mNumGaussians
                                      THEN Len(pre[p]) + 1
                                      ELSE mFtor.mNumGaussians

(* a step matched a gaussian behind the first one in a full model of three *)
FramedFullModel ==
    /\ StepReturned /\ Ready
    /\ \E p \in 1..Len(pre) :
        /\ MatchedAt(p)
        /\ Len(pre[p]) = 3
        /\ MatchIn(p) >= 2

(* the functor of a detector of the same configuration for one pixel, given the
   values observed at pixel p as its frame *)
Alone(p) ==
    [mFtor EXCEPT !.mNumPixels = 1,
                  !.mImage = [c \in 1..mFtor.mNumChannels |-> Observed(p)[c][1]]]

(* C24: after a step, the mask value and the model of every pixel are those a
   one-pixel detector computes from that pixel's model before the step and that
   pixel's values in the frame: nothing else of the store or frame enters. *)
PixelIndependence ==
    (StepReturned /\ Ready) =>
        \A p \in 1..Len(pre) :
            /\ mGMMVec[p] = detectForeground(Alone(p), pre[p], 0).gmm
            /\ mask[p] = (detectForeground(Alone(p), pre[p], 0).class = "fg")

(* a step on two pixels that differed in their models and in their values, and
   it classified them differently *)
NeighboursDiffer ==
    /\ StepReturned /\ Ready
    /\ \E p, q \in 1..Len(pre) :
        /\ pre[p] # <<>> /\ pre[q] # <<>> /\ pre[p] # pre[q]
        /\ Observed(p) # Observed(q)
        /\ mask[p] /\ ~mask[q]

(* C25: in every state, every variance of every gaussian of every pixel is
   greater than 0. *)
PositiveVariance ==
    \A p \in 1..Len(mGMMVec) : \A i \in 1..Len(mGMMVec[p]) :
        \A c \in 1..Len(mGMMVec[p][i].mVariance) :
            RLt(Zero, mGMMVec[p][i].mVariance[c])

(* the calls that keep a detector Ready *)
KeepingCalls == StepCalls \cup {"reset", "get_states", "set_states"}

(* initialize with well-formed dims returned: the store holds rows*cols models,
   all empty, and the detector is Ready if numGaussians >= 1 *)
Initialized ==
    (lastCall = "initialize" /\ err = "none" /\ Len(mFtor.mDims) >= 2) =>
        /\ Len(mGMMVec) = mFtor.mDims[1] * mFtor.mDims[2]
        /\ \A p \in 1..Len(mGMMVec) : mGMMVec[p] = EmptyModel
        /\ mFtor.mNumGaussians >= 1 => Ready

(* release returned: no model is left and the detector is not Ready *)
Released == lastCall = "release" => (mGMMVec = <<>> /\ ~Ready)

(* C26: initialize leaves a Ready detector of rows*cols empty models, also after
   a release; step, reset, get_states and set_states on a Ready detector leave it
   Ready with as many models; release leaves no model and a detector not Ready. *)
Lifecycle ==
    [][/\ Initialized'
       /\ Released'
       /\ (Ready /\ lastCall' \in KeepingCalls) =>
              (Ready' /\ Len(mGMMVec') = Len(mGMMVec))]_vars

(* a detector initialized for two pixels with numGaussians >= 1 was released:
   its store is empty *)
ReleasedAfterReady ==
    /\ lastCall = "release" /\ err = "none"
    /\ mFtor.mGMMPtr # "NULL"
    /\ mFtor.mNumGaussians >= 1 /\ Len(mFtor.mDims) >= 2
    /\ mFtor.mNumPixels = 2
    /\ mGMMVec = <<>>

(* C27: set_states into a Ready detector, whatever its models hold, with the
   arrays get_states filled from a detector of the same configuration whose
   models are within capacity, leaves exactly the models that get_states read
   (so that a get_states after it returns the same arrays, and a second set_states
   of them changes nothing). *)
SetStatesOverwrites ==
    [][(/\ lastCall' = "set_states"
        /\ Ready
        /\ saved.held
        /\ Len(saved.source) = mFtor.mNumPixels
        /\ \A p \in 1..Len(saved.source) :
               Len(saved.source[p]) <= mFtor.mNumGaussians)
       => mGMMVec' = saved.source]_vars

(* C28: every weight of every gaussian of a Ready detector is greater than 0 and
   at most 1. *)
WeightRange ==
    Ready =>
        \A p \in 1..Len(mGMMVec) : \A i \in 1..Len(mGMMVec[p]) :
            /\ RLt(Zero, mGMMVec[p][i].mWeight)
            /\ RLe(mGMMVec[p][i].mWeight, One)

(* isForeground on the gaussians of gmm up to and including position m: what the
   scan returns when it looks no further than the matching gaussian *)
ScanUpTo(gmm, m) == isForeground(mFtor, SubSeq(gmm, 1, m), m)

(* C29: for every model of a Ready detector and every position inside it the scan
   of isForeground returns a classification, the one it returns without looking
   behind that position, so a direct call reaches the end of the list only with
   the end iterator; and a step leaves every model non-empty and hands
   isForeground a position inside it. *)
ScanReturnsInModel ==
    Ready =>
        /\ \A p \in 1..Len(mGMMVec) : \A m \in 1..Len(mGMMVec[p]) :
               /\ ScanUpTo(mGMMVec[p], m) \in {"bg", "fg"}
               /\ isForeground(mFtor, mGMMVec[p], m) = ScanUpTo(mGMMVec[p], m)
        /\ (lastCall = "isForeground" /\ called.atEnd) =>
               \E p \in 1..Len(mGMMVec) :
                   called.matchingGaussian = Len(mGMMVec[p]) + 1
        /\ lastCall \in StepCalls =>
               \A p \in 1..Len(mGMMVec) :
                   /\ Len(mGMMVec[p]) >= 1
                   /\ RankedPosition(p) \in 1..Len(mGMMVec[p])

(* a direct call with a position behind the first gaussian of a model, whose
   weights up to that position sum to less than the minimum background ratio,
   returned background *)
ScanStoppedBelowRatio ==
    /\ Ready /\ lastCall = "isForeground" /\ err = "none"
    /\ called.returned = "bg" /\ ~called.atEnd
    /\ called.matchingGaussian >= 2
    /\ \A p \in 1..Len(mGMMVec) :
           /\ called.matchingGaussian <= Len(mGMMVec[p])
           /\ ~LeqEps(RSub(mFtor.mMinimumBackgroundRatio,
                           RSum([i \in 1..called.matchingGaussian |->
                                    mGMMVec[p][i].mWeight])))

(* C30: after a step of a Ready detector with numGaussians = 1 every model holds
   one gaussian, the matched or new gaussian of every pixel is at the first
   position, and every pixel is classified as background. *)
SingleGaussianBackground ==
    (Ready /\ StepReturned /\ mFtor.mNumGaussians = 1) =>
        \A p \in 1..Len(mGMMVec) :
            /\ Len(mGMMVec[p]) = 1
            /\ RankedPosition(p) = 1
            /\ ~mask[p]

(* a step with numGaussians = 1 matched the gaussian of one pixel and replaced the
   gaussian of another *)
SingleMatchedAndReplaced ==
    /\ Ready /\ StepReturned /\ mFtor.mNumGaussians = 1
    /\ \E p, q \in 1..Len(mGMMVec) :
           /\ Len(pre[p]) = 1 /\ MatchIn(p) = 1
           /\ Len(pre[q]) = 1 /\ MatchIn(q) = 2
           /\ ~mask[p] /\ ~mask[q]

=============================================================================
